---- MODULE Spec2Model ----
(***************************************************************************)
(* Model of plugin/consensus/pos33/sortition.go: the ticket hasher, the    *)
(* threshold comparator, the worker pool of runSortition / doSort, the     *)
(* producer committeeSort and the verifier verifySort.                     *)
(*                                                                         *)
(* Scaling.  A hash is HashLen bytes of ByteBits bits (32 bytes of 8 bits  *)
(* in the program), so the hash space has max = 2^(ByteBits*HashLen)       *)
(* values (2^256 in the program).  SHA-256 and the VRF are replaced by     *)
(* fixed mixing functions over that space.  A difficulty (a float64 in     *)
(* the program) is the numerator d of the ratio d/max.                     *)
(***************************************************************************)
EXTENDS Integers, Sequences, FiniteSets, TLC

\* ------------------------------------------------------------------ bounds
ByteBits == 2
HashLen == 2
MaxCount == 4
MaxCap == 1
NCalls == 2
MaxNum == 1
NPriv == 2
MaxTickets == 2
MaxTamper == 1

\* ------------------------------------------------------- program constants
PoolSize == 8
Committee == 0
FloatMinPrec == 64
Float64Prec == 53

\* pt.Pos33SortBlocks: the bootstrap height and the verifier's lookback.
Pos33SortBlocks == 10

\* --------------------------------------------------------------- helpers
RECURSIVE Pow(_, _)
Pow(b, e) == IF e = 0 THEN 1 ELSE b * Pow(b, e - 1)

RECURSIVE BitLen(_)
BitLen(x) == IF x = 0 THEN 0 ELSE 1 + BitLen(x \div 2)

Max2(a, b) == IF a >= b THEN a ELSE b

Nil == [nil |-> TRUE]

\* ----------------------------------------------- package-level constants
ByteBase == Pow(2, ByteBits)

\* var big1 = big.NewInt(1); var max = big1.Lsh(big1, 256)
max == Pow(ByteBase, HashLen)

\* ------------------------------------------------------------ math/big
\* A big.Float is [val, prec]: the value val/max kept to prec mantissa bits.
\* RoundPrec rounds a numerator to prec significant bits, ties to even
\* (big.Float's default rounding mode ToNearestEven).
RoundPrec(v, prec) ==
    LET bl == BitLen(v)
        unit == IF bl > prec THEN Pow(2, bl - prec) ELSE 1
        q == v \div unit
        r == v % unit
    IN  IF bl <= prec THEN v
        ELSE IF 2 * r > unit \/ (2 * r = unit /\ q % 2 = 1)
             THEN (q + 1) * unit
             ELSE q * unit

\* (*big.Float).SetInt on a Float of precision 0: the precision becomes the
\* larger of x.BitLen() and 64, so the integer is held exactly.
SetInt(x) ==
    LET prec == Max2(BitLen(x), FloatMinPrec)
    IN  [val |-> RoundPrec(x * max, prec), prec |-> prec]

\* big.NewFloat with a diff below 2/max taken up to 2/max.
NewFloatFloored(diff) ==
    [val |-> IF diff < 2 THEN 2 ELSE diff, prec |-> Float64Prec]

\* big.NewFloat(diff): the float64 held exactly, precision 53.
NewFloat(diff) == [val |-> diff, prec |-> Float64Prec]

\* The quotient kept to half the bits of a hash only (as a float of a
\* mantissa shorter than the hash would).
QuoPrecLow(x, y) == (ByteBits * HashLen) \div 2

\* The precision new(big.Float).Quo(x, y) computes with: the receiver's
\* precision is 0, so it becomes the larger of the operands' precisions.
QuoPrec(x, y) == Max2(x.prec, y.prec)

\* new(big.Float).Quo(x, y): the quotient rounded to QuoPrec bits.
Quo(x, y) ==
    [val |-> RoundPrec((x.val * max) \div y.val, QuoPrec(x, y)),
     prec |-> QuoPrec(x, y)]

\* (*big.Float).Cmp: -1, 0, +1; exact whatever the precisions.
Cmp(x, y) == IF x.val < y.val THEN -1 ELSE IF x.val > y.val THEN 1 ELSE 0

\* var fmax = big.NewFloat(0).SetInt(max)
fmax == SetInt(max)

\* ------------------------------------------------------------ byte strings
Bytes == 0..(ByteBase - 1)
Hashes == [1..HashLen -> Bytes]

\* The big-endian bytes of v, HashLen of them.
ToBytes(v) == [k \in 1..HashLen |-> (v \div Pow(ByteBase, HashLen - k)) % ByteBase]

\* (*big.Int).SetBytes: the big-endian value of a byte string.
RECURSIVE SetBytes(_)
SetBytes(buf) ==
    IF Len(buf) = 0 THEN 0
    ELSE SetBytes(SubSeq(buf, 1, Len(buf) - 1)) * ByteBase + buf[Len(buf)]

Reverse(buf) == [k \in 1..Len(buf) |-> buf[Len(buf) + 1 - k]]

\* difficulty.HashToBig: reverses buf IN PLACE, then reads it big-endian.
\* The result carries the integer and the buffer as the call leaves it.
HashToBig(buf) == [y |-> SetBytes(Reverse(buf)), buf |-> Reverse(buf)]

\* fmt.Sprintf("%x+%d+%d", vrfHash, index, num): injective in its three
\* arguments (hex digits hold no '+', a decimal holds at most a leading '-').
Sprintf(vrfHash, index, num) == <<vrfHash, index, num>>

\* All digits of an integer folded into the low ones.
Fold(v) == v + (v \div 16) + (v \div 256) + (v \div 4096)

\* hash2: crypto.Sha256(crypto.Sha256(data)), as a fixed mixing function
\* onto the hash space.
hash2(data) ==
    ToBytes((Fold(data[1]) * 7 + data[2] * 5 + data[3] * 3 + 2) % max)

\* ------------------------------------------------------------------ VRF
Privs == 1..NPriv
Seeds == {1, 2}
Heights ==
    {Pos33SortBlocks - 1, Pos33SortBlocks, Pos33SortBlocks + 1,
     Pos33SortBlocks + 2}
ProdHeights == Heights \ {Pos33SortBlocks - 1}
Rounds == {0, 1}
Tys == {Committee, 1}

\* priv.PubKey().Bytes(): the compressed public key of a private key.
PubKey(priv) == 10 + priv
PubKeys == {PubKey(p) : p \in Privs}
MalformedPub == 0

\* types.Encode(input): the protobuf encoding of a VrfInput, injective in
\* its four fields.
Encode(input) == <<input.Seed, input.Height, input.Round, input.Ty>>

\* vrfPriv.Evaluate(in): a pseudorandom hash, one per (key, input), and the
\* proof that binds it to the public key and the input.
Evaluate(priv, in) ==
    [hash |-> priv * 4096 + in[1] * 1024 + in[2] * 16 + in[3] * 4 + in[4],
     proof |-> [pub |-> PubKey(priv), in |-> in]]

\* calcuVrfHash(input, priv): (vrfHash, vrfProof).
calcuVrfHash(input, priv) == Evaluate(priv, Encode(input))

\* vrfPub.ProofToHash(in, proof): the hash the proof commits to, or an error
\* when the proof is not the one this key gives for this input.
ProofToHash(pub, in, proof) ==
    IF proof = [pub |-> pub, in |-> in]
    THEN [err |-> FALSE, hash |-> Evaluate(pub - 10, in).hash]
    ELSE [err |-> TRUE, hash |-> 0]

\* ---------------------------------------------------------------- sortF
\* sortFLoses with the comparison `>= 0`: a hash exactly on the threshold
\* loses.
sortFLosesStrict(hash, diff) ==
    \E tmpHash \in {hash} :
    \E y \in {HashToBig(tmpHash).y} :
    \E z \in {SetInt(y)} :
        Cmp(Quo(z, fmax), NewFloat(diff)) >= 0

\* sortF, lines 44-50: TRUE when the ticket hash is above the threshold.
\* tmpHash, y and z are the locals of the code, each computed once.
sortFLoses(hash, diff) ==
    \E tmpHash \in {hash} :
    \E y \in {HashToBig(tmpHash).y} :
    \E z \in {SetInt(y)} :
        Cmp(Quo(z, fmax), NewFloat(diff)) > 0

\* tmpHash := make([]byte, len(hash)); copy(tmpHash, hash): two buffers
\* with the same bytes.
MakeCopy(hash) == [hash |-> hash, tmpHash |-> hash]

\* difficulty.HashToBig(bufs[name]): the buffers once the call has reversed
\* the one it was given.
AfterHashToBig(bufs, name) ==
    [bufs EXCEPT ![name] = HashToBig(bufs[name]).buf]

\* sortFBuffers with the conversion applied to hash itself.
sortFBuffersInPlace(hash) == AfterHashToBig(MakeCopy(hash), "hash")

\* sortF, lines 44-48: the buffers hash and tmpHash after
\* y := difficulty.HashToBig(tmpHash).
sortFBuffers(hash) == AfterHashToBig(MakeCopy(hash), "tmpHash")

\* The message sortF builds for a winning draw.
sortFMsg(hash, index, num, proof) ==
    [SortHash |-> [Hash |-> hash, Index |-> index, Num |-> num],
     Proof |-> proof]

sortF(vrfHash, index, num, diff, proof) ==
    LET data == Sprintf(vrfHash, index, num)
        hash == hash2(data)
    IN  IF sortFLoses(hash, diff) THEN Nil
        ELSE sortFMsg(sortFBuffers(hash).hash, index, num, proof)

\* The HashProof committeeSort builds around one VRF evaluation.
HashProof(input, priv) ==
    [Input |-> input,
     VrfHash |-> calcuVrfHash(input, priv).hash,
     VrfProof |-> calcuVrfHash(input, priv).proof,
     Pubkey |-> PubKey(priv)]

\* --------------------------------------------------------------- state
VARIABLES
    sortChCap,  \* capacity of n.sortCh (0: unbuffered)
    sortCh,     \* n.sortCh: the queued sortArgs
    calls,      \* the doSort calls: arguments, feeder i, collector j, msgs
    busy,       \* the pool: the sends s.ch <- sortF(...) workers are in
    evals,      \* how often sortF ran for each (call, index)
    msg,        \* the SortMsg handed to the verifier
    orig,       \* that message as the producer built it
    nTamper,    \* mutations applied to msg
    ver,        \* the last verifySort call: arguments, oracle answers, result
    cmp,        \* one threshold comparison: hash, diff, both decisions
    vrf         \* one vrfVerify call: its four arguments and its result

vars ==
    <<sortChCap, sortCh, calls, busy, evals, msg, orig, nTamper, ver, cmp, vrf>>
sortVars == <<sortChCap, sortCh, calls, busy, evals>>
verifyVars == <<msg, orig, nTamper, ver, vrf>>

\* ------------------------------------------------- runSortition / doSort
Calls == 1..NCalls
SortDiffs == {max \div 4, max \div 2}

\* args: the arguments and the environment's answers of the committeeSort
\* call that made this doSort call (Nil for a direct doSort call).
IdleCall ==
    [st |-> "idle", vrfHash |-> 0, count |-> 0, num |-> 0, diff |-> 0,
     proof |-> Nil, i |-> 0, j |-> 0, msgs |-> <<>>, closed |-> FALSE,
     args |-> Nil]

\* sortArg with one result channel shared by all the calls.
sortArgSharedCh(c, i) ==
    [vrfHash |-> calls[c].vrfHash, index |-> i, num |-> calls[c].num,
     diff |-> calls[c].diff, proof |-> calls[c].proof, ch |-> 1]

\* &sortArg{vrfHash, i, num, diff, proof, ch}; ch is the call's own channel.
sortArg(c, i) ==
    [vrfHash |-> calls[c].vrfHash, index |-> i, num |-> calls[c].num,
     diff |-> calls[c].diff, proof |-> calls[c].proof, ch |-> c]

\* FeederLoop stopping one item short.
FeederLoopShort(i, count) == i + 1 < count

\* The feeder's loop condition, i < count.
FeederLoop(i, count) == i < count

\* CollectLoop as a loop that tests its condition after the first pass.
CollectLoopDoWhile(j, count) == j < count \/ j = 0

\* CollectLoop leaving one result uncollected.
CollectLoopEarly(j, count) == j + 1 < count

\* The collector's loop condition, j < count.
CollectLoop(j, count) == j < count

\* A worker is at `for s := range n.sortCh`: fewer than 8 are in a send.
WorkerFree == Cardinality(busy) < PoolSize

\* WorkerTake with a result that depends on what the other workers are
\* doing: the draw is dropped when another worker is in a send.
WorkerTakeRacy(s) ==
    [s |-> s,
     m |-> IF busy # {} THEN Nil
           ELSE sortF(s.vrfHash, s.index, s.num, s.diff, s.proof)]

\* The worker's body for one s: evaluate sortF, then send on s.ch.
WorkerTake(s) == [s |-> s, m |-> sortF(s.vrfHash, s.index, s.num, s.diff, s.proof)]

Evaluated(s) ==
    [evals EXCEPT ![s.ch][s.index] = @ + 1]

\* doSort, lines 82-89: make ch, start the feeder, j = 0, msgs = nil.
DoSort(c, priv, count, num, diff) ==
    LET input == [Seed |-> 1, Height |-> Pos33SortBlocks + 1,
                  Round |-> c - 1, Ty |-> Committee]
        proof == HashProof(input, priv)
    IN  /\ calls[c].st = "idle"
        /\ calls' = [calls EXCEPT ![c] =
              [IdleCall EXCEPT !.st = "run", !.vrfHash = proof.VrfHash,
                               !.count = count, !.num = num, !.diff = diff,
                               !.proof = proof]]
        /\ UNCHANGED <<sortChCap, sortCh, busy, evals>>

\* n.sortCh <- &sortArg{...} on an unbuffered queue: the feeder hands the
\* item to a worker waiting in range.
FeedHandoff(c) ==
    /\ calls[c].st # "idle"
    /\ sortChCap = 0
    /\ FeederLoop(calls[c].i, calls[c].count)
    /\ WorkerFree
    /\ busy' = busy \cup {WorkerTake(sortArg(c, calls[c].i))}
    /\ evals' = Evaluated(sortArg(c, calls[c].i))
    /\ calls' = [calls EXCEPT ![c].i = @ + 1]
    /\ UNCHANGED <<sortChCap, sortCh>>

\* n.sortCh <- &sortArg{...} on a buffered queue with room.
FeedSend(c) ==
    /\ calls[c].st # "idle"
    /\ sortChCap > 0
    /\ FeederLoop(calls[c].i, calls[c].count)
    /\ Len(sortCh) < sortChCap
    /\ sortCh' = Append(sortCh, sortArg(c, calls[c].i))
    /\ calls' = [calls EXCEPT ![c].i = @ + 1]
    /\ UNCHANGED <<sortChCap, busy, evals>>

\* for s := range n.sortCh: a free worker takes the head of the queue.
WorkerRecv ==
    /\ sortCh # <<>>
    /\ WorkerFree
    /\ busy' = busy \cup {WorkerTake(Head(sortCh))}
    /\ evals' = Evaluated(Head(sortCh))
    /\ sortCh' = Tail(sortCh)
    /\ UNCHANGED <<sortChCap, calls>>

\* s.ch <- m meets m := <-ch: the collector of s.ch appends a non-nil m
\* and counts it.
Collect(b) ==
    LET c == b.s.ch
    IN  /\ calls[c].st = "run"
        /\ ~calls[c].closed
        /\ CollectLoop(calls[c].j, calls[c].count)
        /\ calls' = [calls EXCEPT
              ![c].msgs = IF b.m # Nil THEN Append(@, b.m) ELSE @,
              ![c].j = @ + 1]
        /\ busy' = busy \ {b}
        /\ UNCHANGED <<sortChCap, sortCh, evals>>

\* DoSortReturn without waiting for the loop to end.
DoSortCloseEarly(c) ==
    /\ calls[c].st = "run"
    /\ calls' = [calls EXCEPT ![c].st = "ret", ![c].closed = TRUE]
    /\ UNCHANGED <<sortChCap, sortCh, busy, evals>>

\* The loop is over: close(ch); return msgs.
DoSortReturn(c) ==
    /\ calls[c].st = "run"
    /\ ~CollectLoop(calls[c].j, calls[c].count)
    /\ calls' = [calls EXCEPT ![c].st = "ret", ![c].closed = TRUE]
    /\ UNCHANGED <<sortChCap, sortCh, busy, evals>>

NoMsg == [none |-> TRUE]
NoVer == [called |-> FALSE]
NoCmp == [drawn |-> FALSE]
NoVrf == [drawn |-> FALSE]

InitSort ==
    /\ sortChCap \in 0..MaxCap
    /\ sortCh = <<>>
    /\ calls = [c \in Calls |-> IdleCall]
    /\ busy = {}
    /\ evals = [c \in Calls |-> [i \in 0..(MaxCount - 1) |-> 0]]

Init ==
    /\ InitSort
    /\ msg = NoMsg /\ orig = NoMsg /\ nTamper = 0 /\ ver = NoVer
    /\ cmp = NoCmp
    /\ vrf = NoVrf

\* One step of a goroutine of the pool or of a running doSort call.
SortStep ==
    \/ \E c \in Calls : FeedHandoff(c) /\ UNCHANGED <<verifyVars, cmp>>
    \/ \E c \in Calls : FeedSend(c) /\ UNCHANGED <<verifyVars, cmp>>
    \/ WorkerRecv /\ UNCHANGED <<verifyVars, cmp>>
    \/ \E b \in busy : Collect(b) /\ UNCHANGED <<verifyVars, cmp>>
    \/ \E c \in Calls : DoSortReturn(c) /\ UNCHANGED <<verifyVars, cmp>>

Next ==
    \/ \E c \in Calls, priv \in {1}, count \in 0..MaxCount,
          num \in 0..MaxNum, diff \in SortDiffs :
          DoSort(c, priv, count, num, diff) /\ UNCHANGED <<verifyVars, cmp>>
    \/ SortStep

Spec == Init /\ [][Next]_vars

\* The calls of the liveness specification: every count, one num and one
\* diff (termination does not read the results).
FairNext ==
    \/ \E c \in Calls, count \in 0..MaxCount :
          DoSort(c, 1, count, 0, max \div 2) /\ UNCHANGED <<verifyVars, cmp>>
    \/ SortStep

\* The Go scheduler runs every goroutine that can take a step: while some
\* feeder, worker or collector is able to proceed, one of them does.
FairSpec == Init /\ [][FairNext]_vars /\ WF_vars(SortStep)

\* ---------------------------------------------------------- vrfVerify
NoErr == "nil"
ErrNilMsg == "verifySort error: sort msg is nil"
ErrIndex == "sort index > your count"
ErrHeight == "verifySort error, height NOT match"
ErrSeed == "verifySort error, seed NOT match"
ErrTy == "verifySort error, step NOT match"
ErrVrfVerify == "pt.ErrVrfVerify"
ErrSortHash == "sort hash error"
errDiff == "diff error"

\* secp256k1.ParsePubKey(pub, S256()) returns no error.
ParsePubKeyOk(pub) == pub \in PubKeys

\* vrfVerify without the comparison of line 136.
vrfVerifyNoCompare(pub, input, proof, hash) ==
    IF ~ParsePubKeyOk(pub) THEN ErrVrfVerify
    ELSE IF ProofToHash(pub, input, proof).err THEN ErrVrfVerify
    ELSE NoErr

vrfVerify(pub, input, proof, hash) ==
    IF ~ParsePubKeyOk(pub) THEN ErrVrfVerify
    ELSE IF ProofToHash(pub, input, proof).err THEN ErrVrfVerify
    ELSE IF ProofToHash(pub, input, proof).hash # hash THEN ErrVrfVerify
    ELSE NoErr

\* ---------------------------------------------------------- verifySort
\* height <= pt.Pos33SortBlocks, this bound taken as a strict one.
BootstrapBelow(height) == height < Pos33SortBlocks

\* Line 155: height <= pt.Pos33SortBlocks.
Bootstrap(height) == height <= Pos33SortBlocks

\* Line 158: m == nil || m.Proof == nil || m.SortHash == nil ||
\* m.Proof.Input == nil.
Incomplete(m) ==
    \/ m = Nil
    \/ m.Proof = Nil
    \/ m.SortHash = Nil
    \/ m.Proof.Input = Nil

\* The ownership test with the bound off by one (count < index).
NotOwnedLoose(count, index) == count < index

\* Line 164: count <= m.SortHash.Index.
NotOwned(count, index) == count <= index

\* The phase comparison left out.
TyMismatchNever(inputTy, ty) == FALSE

\* Line 174: m.Proof.Input.Ty != int32(ty); ty is a phase, within int32.
TyMismatch(inputTy, ty) == inputTy # ty

\* verifyLoses with the comparison `>= 0`: a hash exactly on the threshold
\* is rejected.
verifyLosesStrict(hash, diff) ==
    \E tmpHash \in {hash} :
    \E y \in {HashToBig(tmpHash).y} :
    \E z \in {SetInt(y)} :
        Cmp(Quo(z, fmax), NewFloat(diff)) >= 0

\* verifySort, lines 192-198: TRUE when the ticket hash is above the
\* threshold.  tmpHash, y and z are the locals of the code.
verifyLoses(hash, diff) ==
    \E tmpHash \in {hash} :
    \E y \in {HashToBig(tmpHash).y} :
    \E z \in {SetInt(y)} :
        Cmp(Quo(z, fmax), NewFloat(diff)) > 0

\* The checks of verifySort after the bootstrap test, in the order the code
\* runs them, with the ledger and oracle queries done on the way.
\* The height and seed checks exchanged with the ownership check.
CheckOrderSwapped ==
    <<"nil", "height", "index", "seed", "ty", "vrf", "hash", "diff">>

CheckOrder ==
    <<"nil", "index", "height", "seed", "ty", "vrf", "hash", "diff">>

\* a: [height, ty, seed, m, count, diff]; count and diff are what
\* n.queryTicketCount(addr, height-pt.Pos33SortBlocks) and
\* n.getDiff(height, round) answer when the code reaches them.
CheckFails(k, a) ==
    CASE k = "nil" -> Incomplete(a.m)
      [] k = "index" -> NotOwned(a.count, a.m.SortHash.Index)
      [] k = "height" -> a.m.Proof.Input.Height # a.height
      [] k = "seed" -> a.m.Proof.Input.Seed # a.seed
      [] k = "ty" -> TyMismatch(a.m.Proof.Input.Ty, a.ty)
      [] k = "vrf" ->
            LET round == a.m.Proof.Input.Round
                input == [Seed |-> a.seed, Height |-> a.height,
                          Round |-> round, Ty |-> a.ty]
                in == Encode(input)
            IN  vrfVerify(a.m.Proof.Pubkey, in, a.m.Proof.VrfProof,
                          a.m.Proof.VrfHash) # NoErr
      [] k = "hash" ->
            LET data == Sprintf(a.m.Proof.VrfHash, a.m.SortHash.Index,
                                a.m.SortHash.Num)
            IN  hash2(data) # a.m.SortHash.Hash
      [] k = "diff" ->
            LET data == Sprintf(a.m.Proof.VrfHash, a.m.SortHash.Index,
                                a.m.SortHash.Num)
            IN  verifyLoses(hash2(data), a.diff)

CheckErr(k) ==
    CASE k = "nil" -> ErrNilMsg
      [] k = "index" -> ErrIndex
      [] k = "height" -> ErrHeight
      [] k = "seed" -> ErrSeed
      [] k = "ty" -> ErrTy
      [] k = "vrf" -> ErrVrfVerify
      [] k = "hash" -> ErrSortHash
      [] k = "diff" -> errDiff

\* The checks run one after the other; the first that fails returns.
RECURSIVE RunChecks(_, _, _)
RunChecks(order, a, done) ==
    IF order = <<>> THEN [err |-> NoErr, steps |-> done]
    ELSE IF CheckFails(Head(order), a)
         THEN [err |-> CheckErr(Head(order)),
               steps |-> Append(done, Head(order))]
         ELSE RunChecks(Tail(order), a, Append(done, Head(order)))

\* verifySort(height, ty, seed, m): the error, and the checks it ran.
verifySort(height, ty, seed, m, count, diff) ==
    IF Bootstrap(height) THEN [err |-> NoErr, steps |-> <<"bootstrap">>]
    ELSE RunChecks(CheckOrder,
                   [height |-> height, ty |-> ty, seed |-> seed, m |-> m,
                    count |-> count, diff |-> diff],
                   <<"bootstrap">>)

\* -------------------------------------------------------- committeeSort
PrivNil == 0
Diffs == {max \div 4, max \div 2, max}

\* The messages of the list doSort returns (C2): the winning draws.
doSortMsgs(vrfHash, count, num, diff, proof) ==
    {sortF(vrfHash, i, num, diff, proof) : i \in 0..(count - 1)} \ {Nil}

\* committeeSort(seed, height, round, ty) for the key priv, with count the
\* answer of n.queryTicketCount(n.myAddr, height-10) and diff that of
\* n.getDiff(height, round): the messages returned (none without a key).
committeeSort(seed, height, round, ty, priv, count, diff) ==
    IF priv = PrivNil THEN {}
    ELSE LET input == [Seed |-> seed, Height |-> height, Round |-> round,
                       Ty |-> ty]
             proof == HashProof(input, priv)
         IN  doSortMsgs(proof.VrfHash, count, 0, diff, proof)

\* A node runs committeeSort and broadcasts one of the messages returned.
Produce(seed, height, round, ty, priv, count, diff) ==
    /\ msg = NoMsg
    /\ \E m \in committeeSort(seed, height, round, ty, priv, count, diff) :
          /\ msg' = m
          /\ orig' = m
    /\ UNCHANGED <<nTamper, ver, vrf>>

\* --------------------------------------------------------- the network
BadProof == [pub |-> MalformedPub, in |-> <<>>]

Indexes == (0 - 1)..MaxTickets
Nums == 0..MaxNum

\* The single mutations of a complete message m: one field replaced (for
\* "Reindex" and "Renum", by a key holder who recomputes the ticket hash).
Mutations(m) ==
    {Nil}
    \cup {[m EXCEPT !.Proof = Nil], [m EXCEPT !.SortHash = Nil],
          [m EXCEPT !.Proof.Input = Nil]}
    \cup {[m EXCEPT !.SortHash.Index = i] : i \in Indexes}
    \cup {[m EXCEPT !.SortHash.Index = i,
                    !.SortHash.Hash =
                        hash2(Sprintf(m.Proof.VrfHash, i, m.SortHash.Num))] :
            i \in Indexes}
    \cup {[m EXCEPT !.SortHash.Num = n,
                    !.SortHash.Hash =
                        hash2(Sprintf(m.Proof.VrfHash, m.SortHash.Index, n))] :
            n \in Nums}
    \cup {[m EXCEPT !.SortHash.Num = n] : n \in Nums}
    \cup {[m EXCEPT !.SortHash.Hash = Reverse(m.SortHash.Hash)]}
    \cup {[m EXCEPT !.Proof.Input.Height = h] : h \in Heights}
    \cup {[m EXCEPT !.Proof.Input.Seed = sd] : sd \in Seeds}
    \cup {[m EXCEPT !.Proof.Input.Round = r] : r \in Rounds}
    \cup {[m EXCEPT !.Proof.Input.Ty = t] : t \in Tys}
    \cup {[m EXCEPT !.Proof.VrfHash = calcuVrfHash(m.Proof.Input, p).hash] :
            p \in Privs}
    \cup {[m EXCEPT !.Proof.VrfProof = calcuVrfHash(m.Proof.Input, p).proof] :
            p \in Privs}
    \cup {[m EXCEPT !.Proof.VrfProof = BadProof]}
    \cup {[m EXCEPT !.Proof.Pubkey = k] : k \in PubKeys \cup {MalformedPub}}

\* The message is altered on its way to the verifier.
Tamper ==
    /\ msg # NoMsg
    /\ ~ver.called
    /\ nTamper < MaxTamper
    /\ ~Incomplete(msg)
    /\ \E t \in Mutations(msg) \ {msg} : msg' = t
    /\ nTamper' = nTamper + 1
    /\ UNCHANGED <<orig, ver, vrf>>

\* No answer: the code did not reach the query.
NoAnswer == 0 - 1

\* verifySort(height, ty, seed, m) runs check k.
Reaches(k, height, ty, seed, m, count, diff) ==
    \E r \in {verifySort(height, ty, seed, m, count, diff)} :
        \E n \in 1..Len(r.steps) : r.steps[n] = k

\* What n.queryTicketCount(addr, height-pt.Pos33SortBlocks) may answer, when
\* the code gets to line 163.
LedgerAnswers(height, ty, seed, m) ==
    IF Reaches("index", height, ty, seed, m, NoAnswer, NoAnswer)
    THEN 0..MaxTickets
    ELSE {NoAnswer}

\* What n.getDiff(height, round) may answer, when the code gets to line 194.
OracleAnswers(height, ty, seed, m, count) ==
    IF Reaches("diff", height, ty, seed, m, count, max)
    THEN Diffs
    ELSE {NoAnswer}

\* verifySort, lines 186-196: the buffer of m.SortHash.Hash, hash and
\* tmpHash after y := difficulty.HashToBig(tmpHash).
verifyBuffers(m) ==
    LET data == Sprintf(m.Proof.VrfHash, m.SortHash.Index, m.SortHash.Num)
    IN  AfterHashToBig([msgHash |-> m.SortHash.Hash,
                        hash |-> hash2(data), tmpHash |-> hash2(data)],
                       "tmpHash")

\* The message as a verifySort call that ran `steps` leaves it.
verifyLeaves(m, steps) ==
    IF \E k \in 1..Len(steps) : steps[k] = "diff"
    THEN [m EXCEPT !.SortHash.Hash = verifyBuffers(m).msgHash]
    ELSE m

\* A node that is in round `round` of its consensus runs
\* verifySort(height, ty, seed, msg); the ledger answers count and the
\* oracle answers diff.  The node's round is no argument of verifySort
\* (line 154): the code reads the round from the message (line 178).
VerifySort(height, ty, seed, round) ==
    /\ msg # NoMsg
    /\ ~ver.called
    /\ \E count \in LedgerAnswers(height, ty, seed, msg) :
       \E diff \in OracleAnswers(height, ty, seed, msg, count) :
       \E r \in {verifySort(height, ty, seed, msg, count, diff)} :
          /\ ver' = [called |-> TRUE, height |-> height, ty |-> ty,
                     seed |-> seed, round |-> round, count |-> count,
                     diff |-> diff, err |-> r.err, steps |-> r.steps]
          /\ msg' = verifyLeaves(msg, r.steps)
    /\ UNCHANGED <<orig, nTamper, vrf>>

NextVerify ==
    \/ /\ msg = NoMsg
       /\ \E seed \in Seeds, height \in ProdHeights, round \in Rounds,
             ty \in Tys, priv \in Privs \cup {PrivNil},
             count \in 0..MaxTickets, diff \in Diffs :
             Produce(seed, height, round, ty, priv, count, diff)
                /\ UNCHANGED <<sortVars, cmp>>
    \/ Tamper /\ UNCHANGED <<sortVars, cmp>>
    \/ \E height \in Heights, ty \in Tys, seed \in Seeds, round \in Rounds :
          VerifySort(height, ty, seed, round) /\ UNCHANGED <<sortVars, cmp>>

InitVerify == Init /\ sortChCap = 0

SpecVerify == InitVerify /\ [][NextVerify]_vars

\* ------------------------------------------- the threshold comparison
\* A ticket hash and a difficulty reach the comparison.
CmpDraw(hash, diff) ==
    /\ ~cmp.drawn
    /\ cmp' = [drawn |-> TRUE, hash |-> hash, diff |-> diff,
               prod |-> "none", veri |-> "none"]

\* sortF decides (lines 47-52).
CmpSortF ==
    /\ cmp.drawn
    /\ cmp.prod = "none"
    /\ cmp' = [cmp EXCEPT !.prod =
                  IF sortFLoses(cmp.hash, cmp.diff) THEN "lose" ELSE "win"]

\* verifySort decides (lines 192-201).
CmpVerify ==
    /\ cmp.drawn
    /\ cmp.veri = "none"
    /\ cmp' = [cmp EXCEPT !.veri =
                  IF verifyLoses(cmp.hash, cmp.diff) THEN "lose" ELSE "win"]

NextCmp ==
    \/ /\ ~cmp.drawn
       /\ \E hash \in Hashes, diff \in 0..max :
             CmpDraw(hash, diff) /\ UNCHANGED <<sortVars, verifyVars>>
    \/ CmpSortF /\ UNCHANGED <<sortVars, verifyVars>>
    \/ CmpVerify /\ UNCHANGED <<sortVars, verifyVars>>

SpecCmp == InitVerify /\ [][NextCmp]_vars

\* ------------------------------------------------------------- reference
\* The integer y a ticket hash stands for in the threshold test: its bytes
\* read least significant first.
RECURSIVE LittleEndian(_)
LittleEndian(buf) ==
    IF Len(buf) = 0 THEN 0
    ELSE buf[1] + ByteBase * LittleEndian(SubSeq(buf, 2, Len(buf)))

\* y/max <= diff, decided in integers (diff is the numerator of d/max).
Clears(hash, diff) == LittleEndian(hash) <= diff

TicketHash(vrfHash, index, num) == hash2(Sprintf(vrfHash, index, num))

Range(seq) == {seq[k] : k \in 1..Len(seq)}

\* ----------------------------------------------------------------- C1
\* C1: in one doSort call sortF runs at most once per index at any time,
\* and when doSort has returned it has received exactly count results and
\* sortF has run exactly once for every index in [0, count) and for no other.
C1_ExactlyOnce ==
    \A c \in Calls :
        /\ \A i \in 0..(MaxCount - 1) : evals[c][i] <= 1
        /\ calls[c].st = "ret" =>
              /\ calls[c].j = calls[c].count
              /\ \A i \in 0..(MaxCount - 1) :
                    evals[c][i] = IF i < calls[c].count THEN 1 ELSE 0

\* Two overlapping calls, both returned, one over the full count.
C1_Witness ==
    /\ calls[1].st = "ret" /\ calls[2].st = "ret"
    /\ calls[1].count = MaxCount /\ calls[2].count > 0
    /\ sortChCap = 0

\* ----------------------------------------------------------------- C2
\* C2: the list doSort returns holds a message with Index = i exactly for
\* the i in [0, count) whose ticket hash of (vrfHash, i, num) clears diff,
\* holds no index twice, and each message carries that ticket hash, the
\* call's num and the call's proof.
C2_WinnersOnly ==
    \A c \in Calls : calls[c].st = "ret" =>
        LET a == calls[c]
            wins == {i \in 0..(a.count - 1) :
                        Clears(TicketHash(a.vrfHash, i, a.num), a.diff)}
        IN  /\ {m.SortHash.Index : m \in Range(a.msgs)} = wins
            /\ Len(a.msgs) = Cardinality(wins)
            /\ \A m \in Range(a.msgs) :
                  /\ m.SortHash.Hash =
                        TicketHash(a.vrfHash, m.SortHash.Index, a.num)
                  /\ m.SortHash.Num = a.num
                  /\ m.Proof = a.proof

\* A returned call with winners and losers among its draws.
C2_Witness ==
    \E c \in Calls :
        /\ calls[c].st = "ret"
        /\ Len(calls[c].msgs) > 1
        /\ Len(calls[c].msgs) < calls[c].count

RefComplete(m) ==
    /\ m # Nil
    /\ m.Proof # Nil
    /\ m.SortHash # Nil
    /\ m.Proof.Input # Nil

\* The proof and the VRF hash of m are those its key holder computes for
\* the verifier's (seed, height, phase) and the round m names.
RefVrfOk(m, v) ==
    \E p \in Privs :
        LET input == [Seed |-> v.seed, Height |-> v.height,
                      Round |-> m.Proof.Input.Round, Ty |-> v.ty]
        IN  /\ m.Proof.Pubkey = PubKey(p)
            /\ m.Proof.VrfHash = calcuVrfHash(input, p).hash
            /\ m.Proof.VrfProof = calcuVrfHash(input, p).proof

\* Check k of section 4.7 fails for message m in the verification v.
RefFails(k, m, v) ==
    CASE k = "nil" -> ~RefComplete(m)
      [] k = "index" -> m.SortHash.Index >= v.count
      [] k = "height" -> m.Proof.Input.Height # v.height
      [] k = "seed" -> m.Proof.Input.Seed # v.seed
      [] k = "ty" -> m.Proof.Input.Ty # v.ty
      [] k = "vrf" -> ~RefVrfOk(m, v)
      [] k = "hash" ->
            m.SortHash.Hash # TicketHash(m.Proof.VrfHash, m.SortHash.Index,
                                         m.SortHash.Num)
      [] k = "diff" -> ~Clears(m.SortHash.Hash, v.diff)

RefErr(k) ==
    CASE k = "nil" -> ErrNilMsg
      [] k = "index" -> ErrIndex
      [] k = "height" -> ErrHeight
      [] k = "seed" -> ErrSeed
      [] k = "ty" -> ErrTy
      [] k = "vrf" -> ErrVrfVerify
      [] k = "hash" -> ErrSortHash
      [] k = "diff" -> errDiff

ClaimedOrder ==
    <<"bootstrap", "nil", "index", "height", "seed", "ty", "vrf", "hash",
      "diff">>

AboveBootstrap == ver.called /\ ver.height > Pos33SortBlocks

\* ----------------------------------------------------------------- C3
\* C3: a message committeeSort(seed, height, round, ty) returns is accepted
\* by verifySort(height, ty, seed, msg) when the oracle gives the verifier
\* the producer's diff and the ledger reports more than Index tickets.
C3_RoundTrip ==
    (ver.called /\ nTamper = 0) =>
        \A round \in Rounds, priv \in Privs, pcount \in 0..MaxTickets,
           d \in Diffs :
            ( /\ msg \in committeeSort(ver.seed, ver.height, round, ver.ty,
                                       priv, pcount, d)
              /\ ver.diff \in {d, NoAnswer}
              /\ (ver.count = NoAnswer \/ ver.count > msg.SortHash.Index) )
            => ver.err = NoErr

\* An untouched message, verified above the bootstrap height in its own
\* context against a difficulty below 1, passes all the checks.
C3_Witness ==
    /\ AboveBootstrap /\ nTamper = 0
    /\ ver.err = NoErr
    /\ ver.steps = ClaimedOrder
    /\ ver.diff < max
    /\ msg.SortHash.Index > 0

\* ----------------------------------------------------------------- C4
\* C4: above the bootstrap height an accepted message has its Index in
\* [0, count), and a complete message with its Index outside that range is
\* rejected with the ownership error.
C4_IndexInRange ==
    AboveBootstrap =>
        /\ ver.err = NoErr =>
              (msg.SortHash.Index >= 0 /\ msg.SortHash.Index < ver.count)
        /\ (RefComplete(msg) /\ ~(msg.SortHash.Index >= 0
                                  /\ msg.SortHash.Index < ver.count))
              => ver.err = ErrIndex

\* ----------------------------------------------------------------- C5
\* C5: above the bootstrap height a message whose Input.Height, Input.Seed
\* or Input.Ty differs from the verifier's is rejected, so an accepted
\* message embeds the verifier's height, seed and phase.
C5_ContextMatch ==
    AboveBootstrap =>
        /\ (RefComplete(msg) /\
              (\/ msg.Proof.Input.Height # ver.height
               \/ msg.Proof.Input.Seed # ver.seed
               \/ msg.Proof.Input.Ty # ver.ty))
              => ver.err # NoErr
        /\ ver.err = NoErr =>
              /\ RefComplete(msg)
              /\ msg.Proof.Input.Height = ver.height
              /\ msg.Proof.Input.Seed = ver.seed
              /\ msg.Proof.Input.Ty = ver.ty

\* A message whose phase alone was changed reaches the phase check and is
\* rejected there.
C5_Witness ==
    /\ AboveBootstrap /\ nTamper = 1
    /\ RefComplete(msg)
    /\ msg = [orig EXCEPT !.Proof.Input.Ty = msg.Proof.Input.Ty]
    /\ msg.Proof.Input.Ty # ver.ty
    /\ msg.Proof.Input.Height = ver.height
    /\ msg.Proof.Input.Seed = ver.seed
    /\ ver.err = ErrTy

\* ----------------------------------------------------------------- C6
\* The ledger and oracle answers under which the original message is
\* verified: those of ver where it asked, any where it did not.
CountsOf(v) == IF v.count = NoAnswer THEN 0..MaxTickets ELSE {v.count}
DiffsOf(v) == IF v.diff = NoAnswer THEN Diffs ELSE {v.diff}

\* verifySort accepts m0 in the context of ver with the ledger answer c0
\* and the oracle answer d0.
AcceptedWith(m0, c0, d0) ==
    verifySort(ver.height, ver.ty, ver.seed, m0, c0, d0).err = NoErr

\* The four single mutations of an accepted message orig, each with the
\* error it must get.
TamperIndex ==
    /\ nTamper = 1 /\ RefComplete(msg)
    /\ msg = [orig EXCEPT !.SortHash.Index = msg.SortHash.Index]
    /\ \E c0 \in CountsOf(ver), d0 \in DiffsOf(ver) :
          AcceptedWith(orig, c0, d0) /\ msg.SortHash.Index >= c0

TamperHeight ==
    /\ nTamper = 1 /\ RefComplete(msg)
    /\ msg = [orig EXCEPT !.Proof.Input.Height = msg.Proof.Input.Height]
    /\ msg.Proof.Input.Height # orig.Proof.Input.Height
    /\ \E c0 \in CountsOf(ver), d0 \in DiffsOf(ver) :
          AcceptedWith(orig, c0, d0)

TamperVrfProof ==
    /\ nTamper = 1 /\ RefComplete(msg)
    /\ msg = [orig EXCEPT !.Proof.VrfProof = msg.Proof.VrfProof]
    /\ msg.Proof.VrfProof # orig.Proof.VrfProof
    /\ \E c0 \in CountsOf(ver), d0 \in DiffsOf(ver) :
          AcceptedWith(orig, c0, d0)

LoweredDiff ==
    /\ nTamper = 0
    /\ ver.diff # NoAnswer
    /\ ~Clears(msg.SortHash.Hash, ver.diff)
    /\ \E c0 \in CountsOf(ver), d0 \in Diffs : AcceptedWith(msg, c0, d0)

TamperRejected ==
    /\ TamperIndex => ver.err = ErrIndex
    /\ TamperHeight => ver.err = ErrHeight
    /\ TamperVrfProof => ver.err = ErrVrfVerify
    /\ LoweredDiff => ver.err = errDiff
    /\ Cardinality({ErrIndex, ErrHeight, ErrVrfVerify, errDiff}) = 4

\* C6 as stated: whatever the height, each of the four mutations of an
\* accepted message is rejected, with four different errors.
C6_TamperDetected == ver.called => TamperRejected

\* C6 amended: above the bootstrap height (height > pt.Pos33SortBlocks),
\* each of the four mutations of an accepted message is rejected: a raised
\* Index with the ownership error, a changed Input.Height with the height
\* mismatch error, an altered VrfProof with pt.ErrVrfVerify, a lowered
\* oracle diff with errDiff, four different errors.
C6_TamperDetectedAboveBootstrap == AboveBootstrap => TamperRejected

\* An accepted message whose Index was raised to the holder's ticket count
\* gets the ownership error.
C6_Witness ==
    /\ AboveBootstrap
    /\ TamperIndex
    /\ msg.SortHash.Index = ver.count
    /\ ver.err = ErrIndex

C9_FirstFailure ==
    ver.called =>
        LET n == Len(ver.steps)
            last == ver.steps[n]
        IN  /\ n >= 1 /\ n <= Len(ClaimedOrder)
            /\ \A k \in 1..n : ver.steps[k] = ClaimedOrder[k]
            /\ ver.height <= Pos33SortBlocks => (n = 1 /\ ver.err = NoErr)
            /\ ver.height > Pos33SortBlocks =>
                  /\ n >= 2
                  /\ \A k \in 2..(n - 1) : ~RefFails(ver.steps[k], msg, ver)
                  /\ IF RefFails(last, msg, ver)
                     THEN ver.err = RefErr(last)
                     ELSE n = Len(ClaimedOrder) /\ ver.err = NoErr
            /\ (ver.count # NoAnswer) <=> (n >= 3)
            /\ (ver.diff # NoAnswer) <=> (n = Len(ClaimedOrder))

\* A message that fails the ownership check and the height check gets the
\* ownership error, and nothing after that check runs.
C9_Witness ==
    /\ AboveBootstrap
    /\ RefComplete(msg)
    /\ RefFails("index", msg, ver)
    /\ RefFails("height", msg, ver)
    /\ ver.err = ErrIndex
    /\ ver.diff = NoAnswer

\* ---------------------------------------------------------------- C10
\* What "verification is skipped" means: no check runs, no query is made,
\* the message is accepted.
Skipped ==
    /\ ver.steps = <<"bootstrap">>
    /\ ver.err = NoErr
    /\ ver.count = NoAnswer /\ ver.diff = NoAnswer

\* An accepted message went through every check and failed none.
AllChecksPassed ==
    /\ ver.steps = ClaimedOrder
    /\ \A k \in 2..Len(ClaimedOrder) : ~RefFails(ClaimedOrder[k], msg, ver)

\* C10 as stated: verification is skipped exactly when height is below
\* pt.Pos33SortBlocks; at every other height a message is accepted only
\* if it passes all the checks.
C10_SkippedBelowMinimum ==
    ver.called =>
        /\ Skipped <=> ver.height < Pos33SortBlocks
        /\ (~(ver.height < Pos33SortBlocks) /\ ver.err = NoErr)
              => AllChecksPassed

\* C10 amended: verification is skipped exactly when height is at or below
\* pt.Pos33SortBlocks (height <= pt.Pos33SortBlocks); at every height above
\* it a message is accepted only if it passes all the checks.
C10_SkippedAtOrBelowMinimum ==
    ver.called =>
        /\ Skipped <=> ver.height <= Pos33SortBlocks
        /\ (ver.height > Pos33SortBlocks /\ ver.err = NoErr)
              => AllChecksPassed

\* A nil message is accepted at the minimum height itself.
C10_Witness ==
    /\ ver.called
    /\ ver.height = Pos33SortBlocks
    /\ msg = Nil
    /\ Skipped

\* ---------------------------------------------------------------- C11
\* C11: above the bootstrap height a message whose Proof.Input.Round is not
\* the round the verifying node is in is rejected, even when its height,
\* seed and phase are the verifier's.
C11_NoRoundReplay ==
    (AboveBootstrap /\ RefComplete(msg)
        /\ msg.Proof.Input.Round # ver.round)
    => ver.err # NoErr

\* ------------------------------------- committeeSort on the shared pool
\* priv == nil taken as never true.
NoKeyNever(priv) == FALSE

\* Line 104: priv == nil.
NoKey(priv) == priv = PrivNil

\* The difficulties of the committee runs: 0, the smallest positive ratio
\* 1/max, 1/2 and 1.
CommitteeDiffs == {0, 1, max \div 2, max}

\* committeeSort(seed, height, round, ty), lines 102-119, up to the start
\* of doSort: count is the answer of n.queryTicketCount, priv that of
\* n.getPriv, diff that of n.getDiff.  Without a key it returns nil at
\* line 105; with one it builds the proof and calls doSort with num = 0.
CommitteeSortCall(c, seed, height, round, ty, priv, count, diff) ==
    LET a == [seed |-> seed, height |-> height, round |-> round,
              ty |-> ty, priv |-> priv, count |-> count, diff |-> diff]
        input == [Seed |-> seed, Height |-> height, Round |-> round,
                  Ty |-> ty]
    IN  /\ calls[c].st = "idle"
        /\ calls' = [calls EXCEPT ![c] =
              IF NoKey(priv)
              THEN [IdleCall EXCEPT !.st = "ret", !.args = a]
              ELSE [IdleCall EXCEPT
                       !.st = "run",
                       !.vrfHash = HashProof(input, priv).VrfHash,
                       !.count = count, !.num = 0, !.diff = diff,
                       !.proof = HashProof(input, priv),
                       !.args = a]]
        /\ UNCHANGED <<sortChCap, sortCh, busy, evals>>

NextCommittee ==
    \/ \E c \in Calls :
          /\ calls[c].st = "idle"
          /\ \E round \in Rounds, priv \in Privs \cup {PrivNil},
                count \in 0..MaxTickets, diff \in CommitteeDiffs :
                CommitteeSortCall(c, 1, Pos33SortBlocks + 1, round,
                                  Committee, priv, count, diff)
                   /\ UNCHANGED <<verifyVars, cmp>>
    \/ SortStep

SpecCommittee == Init /\ [][NextCommittee]_vars

\* The indices of the messages a call has collected.
IndexSet(c) == {m.SortHash.Index : m \in Range(calls[c].msgs)}

\* ---------------------------------------------------------------- C12
\* C12: two committeeSort calls with the same (seed, height, round, ty),
\* the same key, ledger count and oracle diff return the same set of
\* winning indices, whatever the interleaving of the workers.
C12_Idempotent ==
    \A c1, c2 \in Calls :
        ( /\ calls[c1].st = "ret" /\ calls[c2].st = "ret"
          /\ calls[c1].args # Nil
          /\ calls[c1].args = calls[c2].args )
        => IndexSet(c1) = IndexSet(c2)

\* Two returned calls with the same inputs and several winners, collected
\* in different orders.
C12_Witness ==
    /\ calls[1].st = "ret" /\ calls[2].st = "ret"
    /\ calls[1].args = calls[2].args
    /\ Len(calls[1].msgs) >= 2
    /\ calls[1].msgs # calls[2].msgs
    /\ IndexSet(1) = IndexSet(2)

\* ---------------------------------------------------------------- C13
\* The work items of call c that are queued on n.sortCh or in a worker.
ItemsOf(c) ==
    {[queued |-> k] : k \in {n \in 1..Len(sortCh) : sortCh[n].ch = c}}
        \cup {b \in busy : b.s.ch = c}

\* C13: a committeeSort call whose key provider returned no key has
\* returned no message, has evaluated no VRF (it holds no proof and no
\* VRF hash), has put no work item on n.sortCh, and no sortF ran for it.
C13_NoKeyNoWork ==
    \A c \in Calls :
        (calls[c].args # Nil /\ calls[c].args.priv = PrivNil) =>
            /\ calls[c].st = "ret"
            /\ calls[c].msgs = <<>>
            /\ calls[c].proof = Nil
            /\ calls[c].i = 0 /\ calls[c].j = 0
            /\ ItemsOf(c) = {}
            /\ \A i \in 0..(MaxCount - 1) : evals[c][i] = 0

\* A call without a key, with tickets in the ledger and diff 1, has
\* returned while the other call has work in the pool.
C13_Witness ==
    \E c, d \in Calls :
        /\ calls[c].args # Nil /\ calls[c].args.priv = PrivNil
        /\ calls[c].args.count = MaxTickets
        /\ calls[c].args.diff = max
        /\ calls[c].st = "ret"
        /\ calls[d].st = "run"
        /\ ItemsOf(d) # {}

\* ------------------------------------------------- vrfVerify on its own
\* The encoded inputs, proofs and hashes vrfVerify is called with.
VrfIns ==
    {Encode([Seed |-> sd, Height |-> Pos33SortBlocks + 1, Round |-> r,
             Ty |-> Committee]) : sd \in Seeds, r \in Rounds}
VrfProofs == {Evaluate(p, in).proof : p \in Privs, in \in VrfIns} \cup {BadProof}
VrfHashes == {Evaluate(p, in).hash : p \in Privs, in \in VrfIns} \cup {0}

\* The four arguments of a vrfVerify call.
VrfDraw(pub, in, proof, hash) ==
    /\ ~vrf.drawn
    /\ vrf' = [drawn |-> TRUE, pub |-> pub, in |-> in, proof |-> proof,
               hash |-> hash, err |-> "none"]

\* vrfVerify(pub, input, proof, hash) returns.
VrfVerifyCall ==
    /\ vrf.drawn
    /\ vrf.err = "none"
    /\ vrf' = [vrf EXCEPT !.err = vrfVerify(vrf.pub, vrf.in, vrf.proof,
                                            vrf.hash)]

NextVrf ==
    \/ /\ ~vrf.drawn
       /\ \E pub \in PubKeys \cup {MalformedPub}, in \in VrfIns,
             proof \in VrfProofs, hash \in VrfHashes :
             VrfDraw(pub, in, proof, hash)
                /\ UNCHANGED <<sortVars, msg, orig, nTamper, ver, cmp>>
    \/ VrfVerifyCall /\ UNCHANGED <<sortVars, msg, orig, nTamper, ver, cmp>>

SpecVrf == InitVerify /\ [][NextVrf]_vars

\* ---------------------------------------------------------------- C14
\* The proof is the one the holder of pub gives for in, and hash is the
\* hash that proof commits to.
VrfRelation(pub, in, proof, hash) ==
    \E p \in Privs :
        /\ PubKey(p) = pub
        /\ proof = Evaluate(p, in).proof
        /\ hash = Evaluate(p, in).hash

\* C14: vrfVerify returns nil exactly when the hash reconstructed from
\* (pubkey, input, proof) is the claimed hash; a malformed public key, a
\* proof that fails reconstruction and a hash that differs each give
\* pt.ErrVrfVerify, and there is no other outcome.
C14_VrfVerify ==
    (vrf.drawn /\ vrf.err # "none") =>
        /\ vrf.err \in {NoErr, ErrVrfVerify}
        /\ vrf.err = NoErr <=>
              VrfRelation(vrf.pub, vrf.in, vrf.proof, vrf.hash)
        /\ vrf.pub \notin PubKeys => vrf.err = ErrVrfVerify

\* A well-formed key and its own proof for the input, with a claimed hash
\* that is another key's: rejected with pt.ErrVrfVerify.
C14_Witness ==
    /\ vrf.drawn
    /\ vrf.err = ErrVrfVerify
    /\ \E p \in Privs :
          /\ vrf.pub = PubKey(p)
          /\ vrf.proof = Evaluate(p, vrf.in).proof
          /\ vrf.hash # Evaluate(p, vrf.in).hash
          /\ vrf.hash # 0

\* ------------------------------------- doSort at the smallest difficulties
\* The difficulties at or below the smallest positive ratio: 0 and 1/max.
SmallestDiffs == {0, 1}

\* The VRF hashes doSort is called with: one for every ticket hash value.
AnyVrfHashes == 0..(max - 1)

\* doSort(vrfHash, count, num, diff, proof) called with any VRF hash; the
\* proof is passed through to the messages.
DoSortWith(c, vrfHash, count, num, diff) ==
    LET input == [Seed |-> 1, Height |-> Pos33SortBlocks + 1,
                  Round |-> 0, Ty |-> Committee]
        proof == [HashProof(input, 1) EXCEPT !.VrfHash = vrfHash]
    IN  /\ calls[c].st = "idle"
        /\ calls' = [calls EXCEPT ![c] =
              [IdleCall EXCEPT !.st = "run", !.vrfHash = vrfHash,
                               !.count = count, !.num = num, !.diff = diff,
                               !.proof = proof]]
        /\ UNCHANGED <<sortChCap, sortCh, busy, evals>>

NextSmallest ==
    \/ \E c \in Calls :
          /\ calls[c].st = "idle"
          /\ \E vrfHash \in AnyVrfHashes, count \in 0..MaxTickets,
                num \in Nums, diff \in SmallestDiffs :
                DoSortWith(c, vrfHash, count, num, diff)
                   /\ UNCHANGED <<verifyVars, cmp>>
    \/ SortStep

SpecSmallest == Init /\ [][NextSmallest]_vars

\* ---------------------------------------------------------------- C15
\* The integer value of the ticket hash of draw i of call c.
TicketValue(c, i) ==
    LittleEndian(TicketHash(calls[c].vrfHash, i, calls[c].num))

\* The call ran doSort with diff at or below the smallest positive ratio
\* 1/max (diff is the numerator over max: 0 or 1) and has returned.
SmallestDiffReturned(c) ==
    /\ calls[c].st = "ret"
    /\ calls[c].proof # Nil
    /\ calls[c].diff <= 1

ZeroCount(c) ==
    /\ calls[c].st # "idle"
    /\ calls[c].proof # Nil
    /\ calls[c].count = 0

\* C16: a doSort call with count = 0 puts no work item on n.sortCh, has no
\* sortF evaluated, waits for no result, can always return at once, and
\* returns the empty list.
C16_ZeroCountEmpty ==
    \A c \in Calls : ZeroCount(c) =>
        /\ calls[c].i = 0 /\ calls[c].j = 0
        /\ calls[c].msgs = <<>>
        /\ ItemsOf(c) = {}
        /\ \A i \in 0..(MaxCount - 1) : evals[c][i] = 0
        /\ calls[c].st = "run" => ENABLED DoSortReturn(c)

\* A key holder's call with count = 0 has returned while the other call
\* has its work in the pool.
C16_Witness ==
    \E c, d \in Calls :
        /\ ZeroCount(c)
        /\ calls[c].args # Nil /\ calls[c].args.priv # PrivNil
        /\ calls[c].st = "ret"
        /\ calls[d].st = "run"
        /\ calls[d].count = MaxTickets
        /\ ItemsOf(d) # {}

\* ---------------------------------------------------------------- C17
\* The messages the holder of the key of m returns from committeeSort in
\* the verifier's context, for the round m names, with the ledger count and
\* the oracle diff the verifier was given.
HonestMessages(m, v) ==
    UNION {committeeSort(v.seed, v.height, m.Proof.Input.Round, v.ty, p,
                         v.count, v.diff) :
             p \in {q \in Privs : PubKey(q) = m.Proof.Pubkey}}

\* C17: above the bootstrap height every accepted message has the
\* (Index, Num, Hash) of a message the key holder's committeeSort returns
\* under the same inputs, hence Num = 0 and 0 <= Index < count.
C17_OnlyHonestMessages ==
    (AboveBootstrap /\ ver.err = NoErr) =>
        /\ \E m0 \in HonestMessages(msg, ver) : m0.SortHash = msg.SortHash
        /\ msg.SortHash.Num = 0
        /\ msg.SortHash.Index >= 0 /\ msg.SortHash.Index < ver.count

\* ---------------------------------------------------------------- C18
\* C18: no worker is in a send, or will come to a send, on a channel that
\* doSort has closed: when ch is closed no work item of the call is in a
\* worker or on n.sortCh and the feeder has sent all its items.
C18_NoSendOnClosed ==
    /\ \A b \in busy : ~calls[b.s.ch].closed
    /\ \A k \in 1..Len(sortCh) : ~calls[sortCh[k].ch].closed
    /\ \A c \in Calls :
          calls[c].closed => ~FeederLoop(calls[c].i, calls[c].count)

\* One call has closed its channel after a full run while workers are in
\* a send for the other call.
C18_Witness ==
    \E c, d \in Calls :
        /\ calls[c].closed /\ calls[c].count = MaxCount
        /\ calls[d].st = "run"
        /\ Cardinality({b \in busy : b.s.ch = d}) >= 2

\* ---------------------------------------------------------------- C19
\* The work item s was built by call c from its own arguments.
OwnItem(c, s) ==
    /\ s.vrfHash = calls[c].vrfHash
    /\ s.num = calls[c].num
    /\ s.diff = calls[c].diff
    /\ s.proof = calls[c].proof
    /\ s.index >= 0 /\ s.index < calls[c].count

\* C19: with calls overlapping on n.sortCh and the pool, every work item
\* and every result addressed to a call's channel was built from that
\* call's vrfHash, num, diff and proof; the results a call has counted,
\* those on their way and the items queued add up to the items it has
\* sent; every message it holds is a winning draw of its own arguments; and
\* it returns with exactly count results.
C19_OwnResultsOnly ==
    \A c \in Calls :
        /\ \A k \in 1..Len(sortCh) :
              sortCh[k].ch = c => OwnItem(c, sortCh[k])
        /\ \A b \in busy : b.s.ch = c =>
              /\ OwnItem(c, b.s)
              /\ b.m = sortF(calls[c].vrfHash, b.s.index, calls[c].num,
                             calls[c].diff, calls[c].proof)
        /\ calls[c].j + Cardinality(ItemsOf(c)) = calls[c].i
        /\ \A m \in Range(calls[c].msgs) :
              /\ m.Proof = calls[c].proof
              /\ m.SortHash.Num = calls[c].num
              /\ m.SortHash.Index \in 0..(calls[c].count - 1)
              /\ m.SortHash.Hash =
                    TicketHash(calls[c].vrfHash, m.SortHash.Index,
                               calls[c].num)
              /\ Clears(m.SortHash.Hash, calls[c].diff)
        /\ calls[c].st = "ret" => calls[c].j = calls[c].count

\* Two calls with different VRF hashes, nums and diffs have their items in
\* the pool at the same time, and each already holds a message.
C19_Witness ==
    /\ calls[1].st = "run" /\ calls[2].st = "run"
    /\ calls[1].vrfHash # calls[2].vrfHash
    /\ calls[1].num # calls[2].num
    /\ calls[1].diff # calls[2].diff
    /\ \E b1, b2 \in busy : b1.s.ch = 1 /\ b2.s.ch = 2
    /\ calls[1].msgs # <<>> /\ calls[2].msgs # <<>>

\* ---------------------------------------------------------------- C20
\* The message sortF emitted carries the double hash of its own
\* (VrfHash, Index, Num).
EmittedHashIsTicketHash ==
    msg # NoMsg =>
        orig.SortHash.Hash =
            TicketHash(orig.Proof.VrfHash, orig.SortHash.Index,
                       orig.SortHash.Num)

\* A verifySort call leaves the message as it found it.
VerifyKeepsMessage == (~ver.called /\ ver'.called) => msg' = msg

\* C20: every message sortF emits has in SortHash.Hash the double hash it
\* computed (the conversion to an integer reversed a copy, not the hash),
\* and verifySort leaves the message it verifies unchanged, whatever the
\* outcome.
C20_HashKept == [](EmittedHashIsTicketHash) /\ [][VerifyKeepsMessage]_vars

\* A message whose hash is not its own mirror image went through the
\* threshold test of sortF and of verifySort and is still the one emitted.
C20_Witness ==
    /\ AboveBootstrap /\ nTamper = 0
    /\ ver.steps = ClaimedOrder
    /\ Reverse(msg.SortHash.Hash) # msg.SortHash.Hash
    /\ msg = orig
====
